---- MODULE Spec2Model ----
(***************************************************************************)
(* Model of the 16personalities tracker backend: the HTTP handlers of      *)
(* api/hello.js and api/check-time.js (the diagnostic handler, the         *)
(* refactored log handler and the three earlier inline log handlers), the  *)
(* validators they call, and the relational store they write to.           *)
(*                                                                         *)
(* JavaScript values are tagged records [t, v].  A JavaScript string is a  *)
(* sequence of substrings (tokens), so that startsWith and trim are        *)
(* computed on the value; a number is held in thousandths, so that 0.001   *)
(* is representable.                                                       *)
(***************************************************************************)
EXTENDS Integers, Sequences, FiniteSets, TLC

(* ------------------------------------------------------------------ *)
(* Bounds of the model                                                 *)
(* ------------------------------------------------------------------ *)
\* requests handled in one behaviour
MaxReq == 1
\* longest answers array of a request
MaxAnswers == 2
\* fields of a result payload that differ from those of a valid payload
MaxOddFields == 1
\* trait entries of a probed traits object that differ from a valid entry
MaxOddTraits == 2

VARIABLES
  req,        \* req[r]: the endpoint, method and parsed body of request r
  pc,         \* pc[r]: idle, received, awaiting, settled, done
  headers,    \* headers[r]: the response headers set so far
  responses,  \* responses[r]: the responses sent, in order
  trace,      \* trace[r]: the stages the handler has gone through
  pending,    \* pending[r]: the store operation awaited and its continuation
  executed,   \* executed[r]: the statements of pending[r] executed so far
  outcome,    \* outcome[r]: how the awaited store operation settled
  calls,      \* calls[r]: the store operations request r has submitted
  store,      \* the tables; each row carries the request that inserted it
  probe       \* a validator applied to an input on its own

vars == <<req, pc, headers, responses, trace, pending, executed, outcome,
          calls, store, probe>>

(* ------------------------------------------------------------------ *)
(* JavaScript values                                                   *)
(* ------------------------------------------------------------------ *)
Undef == [t |-> "undefined"]
Null == [t |-> "null"]
Num(n) == [t |-> "number", v |-> n]
Int1000(n) == Num(n * 1000)
Str(s) == [t |-> "string", v |-> s]
Bool(b) == [t |-> "boolean", v |-> b]
Obj(f) == [t |-> "object", v |-> f]
Arr(s) == [t |-> "array", v |-> s]

\* A property of an object literal; a property whose value is undefined is
\* left out, as it is in a JSON body.
Fld(k, val) == IF val = Undef THEN <<>> ELSE (k :> val)

\* !x
Truthy(x) ==
  CASE x.t = "undefined" -> FALSE
    [] x.t = "null" -> FALSE
    [] x.t = "boolean" -> x.v
    [] x.t = "number" -> x.v # 0
    [] x.t = "string" -> x.v # <<>>
    [] OTHER -> TRUE

\* typeof x
TypeOf(x) ==
  CASE x.t = "null" -> "object"
    [] x.t = "array" -> "object"
    [] OTHER -> x.t

\* x[k] for a named property k; reading a property of null or undefined
\* throws a TypeError, which the callers test with IsNullish before reading.
IsNullish(x) == x.t \in {"undefined", "null"}

Get(x, k) ==
  IF x.t = "object" /\ k \in DOMAIN x.v THEN x.v[k] ELSE Undef

\* Array.isArray(x)
IsArray(x) == x.t = "array"

\* s.startsWith(p) on token sequences
StartsWith(s, p) == Len(s) >= Len(p) /\ SubSeq(s, 1, Len(p)) = p

\* s.trim(): the token " " is white space
RECURSIVE TrimStart(_)
TrimStart(s) == IF s # <<>> /\ Head(s) = " " THEN TrimStart(Tail(s)) ELSE s

RECURSIVE TrimEnd(_)
TrimEnd(s) ==
  IF s # <<>> /\ s[Len(s)] = " " THEN TrimEnd(SubSeq(s, 1, Len(s) - 1)) ELSE s

Trim(s) == TrimEnd(TrimStart(s))

\* param conversion of the store client: null and undefined are both sent
\* as SQL NULL
PrepareValue(x) == IF IsNullish(x) THEN Null ELSE x

(* ------------------------------------------------------------------ *)
(* Messages and errors                                                 *)
(* ------------------------------------------------------------------ *)
\* A template string: its literal text and the value interpolated at its end
\* (Undef when there is none).
Msg(text, arg) == [text |-> text, arg |-> arg]
NoMsg == Msg(<<>>, Undef)

Err(name, message, isVal) ==
  [name |-> name, message |-> message, isValidationError |-> isVal]

ValidationError(text, arg) == Err("ValidationError", Msg(text, arg), FALSE)
TypeErrorOf(k) ==
  Err("TypeError", Msg(<<"Cannot read properties of null">>, Str(<<k>>)), FALSE)

Return(val) == [thrown |-> FALSE, value |-> val]
Throw(e) == [thrown |-> TRUE, error |-> e]

(* ------------------------------------------------------------------ *)
(* Validation helpers (refactored log handler)                         *)
(* ------------------------------------------------------------------ *)
\* validateCommonFields without its test of the timestamp
validateCommonFields_noTimestamp(payload) ==
  LET userId == Get(payload, "userId")
      sessionId == Get(payload, "sessionId")
      timestamp == Get(payload, "timestamp")
  IN IF ~Truthy(userId) \/ TypeOf(userId) # "string"
     THEN Throw(ValidationError(
            <<"Missing", " or invalid userId (string required)">>, Undef))
     ELSE IF ~Truthy(sessionId) \/ TypeOf(sessionId) # "string"
     THEN Throw(ValidationError(
            <<"Missing", " or invalid sessionId (string required)">>, Undef))
     ELSE Return([userId |-> userId, sessionId |-> sessionId,
                  timestamp |-> timestamp])

validateCommonFields(payload) ==
  LET userId == Get(payload, "userId")
      sessionId == Get(payload, "sessionId")
      timestamp == Get(payload, "timestamp")
  IN IF ~Truthy(userId) \/ TypeOf(userId) # "string"
     THEN Throw(ValidationError(
            <<"Missing", " or invalid userId (string required)">>, Undef))
     ELSE IF ~Truthy(sessionId) \/ TypeOf(sessionId) # "string"
     THEN Throw(ValidationError(
            <<"Missing", " or invalid sessionId (string required)">>, Undef))
     ELSE IF ~Truthy(timestamp) \/ TypeOf(timestamp) # "string"
     THEN Throw(ValidationError(
            <<"Missing", " or invalid timestamp (string required)">>, Undef))
     ELSE Return([userId |-> userId, sessionId |-> sessionId,
                  timestamp |-> timestamp])

requiredTraits == <<"mind", "energy", "nature", "tactics", "identity">>

\* the condition of the if statement in the loop of isValidTraitObject,
\* with the bound of the range check off by one step
traitFails_strict(tr) ==
  \/ ~Truthy(tr)
  \/ TypeOf(Get(tr, "percent")) # "number"
  \/ Get(tr, "percent").v <= 0 \/ Get(tr, "percent").v >= 100 * 1000
  \/ TypeOf(Get(tr, "type")) # "string"
  \/ Trim(Get(tr, "type").v) = <<>>

\* the condition of the if statement in the loop of isValidTraitObject
traitFails(tr) ==
  \/ ~Truthy(tr)
  \/ TypeOf(Get(tr, "percent")) # "number"
  \/ Get(tr, "percent").v < 0 \/ Get(tr, "percent").v > 100 * 1000
  \/ TypeOf(Get(tr, "type")) # "string"
  \/ Trim(Get(tr, "type").v) = <<>>

RECURSIVE traitLoop(_, _)
traitLoop(traits, i) ==
  IF i > Len(requiredTraits) THEN TRUE
  ELSE IF traitFails(Get(traits, requiredTraits[i])) THEN FALSE
  ELSE traitLoop(traits, i + 1)

isValidTraitObject(traits) ==
  IF ~Truthy(traits) \/ TypeOf(traits) # "object" THEN FALSE
  ELSE traitLoop(traits, 1)

\* the element test written with falsiness for all three fields
answerFails_falsy(answer) ==
  \/ ~Truthy(Get(answer, "question_number"))
  \/ ~Truthy(Get(answer, "question_text"))
  \/ ~Truthy(Get(answer, "answer_value"))

\* the condition of the if statement in the forEach of validateAnswers;
\* reading question_number of null throws a TypeError
answerFails(answer) ==
  \/ Get(answer, "question_number") = Undef
  \/ Get(answer, "question_number") = Null
  \/ ~Truthy(Get(answer, "question_text"))
  \/ Get(answer, "answer_value") = Undef

InvalidAnswerText == <<"Invalid answer format", " in array: ">>

\* the forEach of validateAnswers looking at one element only
answersLoop_firstOnly(answers, i) ==
  IF IsNullish(answers.v[i]) THEN Throw(TypeErrorOf("question_number"))
  ELSE IF answerFails(answers.v[i])
       THEN Throw(ValidationError(InvalidAnswerText, answers.v[i]))
  ELSE Return(answers)

RECURSIVE answersLoop(_, _)
answersLoop(answers, i) ==
  IF i > Len(answers.v) THEN Return(answers)
  ELSE IF IsNullish(answers.v[i]) THEN Throw(TypeErrorOf("question_number"))
  ELSE IF answerFails(answers.v[i])
       THEN Throw(ValidationError(InvalidAnswerText, answers.v[i]))
  ELSE answersLoop(answers, i + 1)

validateAnswers(answers) ==
  IF ~IsArray(answers) \/ Len(answers.v) = 0
  THEN Throw(ValidationError(<<"Missing", " or empty \"answers\" array">>, Undef))
  ELSE answersLoop(answers, 1)

ProfilePrefix == <<"https://www.16personalities.com/", "profiles/">>

validateTestResult(payload) ==
  LET profileUrl == Get(payload, "profileUrl")
      mbtiResult == Get(payload, "mbtiResult")
      mbtiCode == Get(payload, "mbtiCode")
      traits == Get(payload, "traits")
  IN IF \/ ~Truthy(profileUrl) \/ TypeOf(profileUrl) # "string"
        \/ ~StartsWith(profileUrl.v, ProfilePrefix)
     THEN Throw(ValidationError(
            <<"Missing", " or invalid profileUrl format">>, Undef))
     ELSE IF ~Truthy(mbtiResult) \/ TypeOf(mbtiResult) # "string"
     THEN Throw(ValidationError(
            <<"Missing", " or invalid mbtiResult (full string)">>, Undef))
     ELSE IF Truthy(mbtiCode) /\ TypeOf(mbtiCode) # "string"
     THEN Throw(ValidationError(
            <<"Invalid mbtiCode format (should be string or null)">>, Undef))
     ELSE IF ~isValidTraitObject(traits)
     THEN Throw(ValidationError(
            <<"Invalid or incomplete traits object">>, Undef))
     ELSE Return([profileUrl |-> profileUrl, mbtiResult |-> mbtiResult,
                  mbtiCode |-> mbtiCode, traits |-> traits])

(* ------------------------------------------------------------------ *)
(* Responses, store operations, handler results                        *)
(* ------------------------------------------------------------------ *)
\* res.status(s).json({message, error})
Json(status, message, error) ==
  [status |-> status,
   body |-> [kind |-> "json", message |-> message, error |-> error]]

\* res.status(s).end()
End(status) == [status |-> status, body |-> [kind |-> "none"]]

\* A call of the store client: one awaited statement (autocommit) or
\* sql.transaction(queries).
Statement(table, row) == [atomic |-> FALSE, table |-> table, rows |-> <<row>>]
\* sql.transaction(queries) sending the statements one by one, each committed
\* on its own
Transaction_autocommit(table, rows) ==
  [atomic |-> FALSE, table |-> table, rows |-> rows]

Transaction(table, rows) == [atomic |-> TRUE, table |-> table, rows |-> rows]
NoOp == [atomic |-> FALSE, table |-> "none", rows |-> <<>>]

\* What a type handler does up to its first await: it throws, it responds,
\* or it submits a store operation and waits for it.
Throws(e) == [k |-> "throw", error |-> e]
Responds(rsp) == [k |-> "respond", response |-> rsp]
Awaits(op, cont) == [k |-> "await", op |-> op, cont |-> cont]

\* What a whole handler does up to its first await.
Step(hdrs, stages, sent, op, cont) ==
  [headers |-> hdrs, trace |-> stages, responses |-> sent,
   op |-> op, cont |-> cont]

\* The outcome of a store operation, as the awaiting code sees it.
NoErr == Err("none", NoMsg, FALSE)
NotSettled == [settled |-> FALSE, ok |-> FALSE, error |-> NoErr]
Fulfilled == [settled |-> TRUE, ok |-> TRUE, error |-> NoErr]
Rejected(e) == [settled |-> TRUE, ok |-> FALSE, error |-> e]

(* ------------------------------------------------------------------ *)
(* Refactored log handler: type handlers                               *)
(* ------------------------------------------------------------------ *)
\* the INSERT INTO test_events with user_id and session_id interchanged
eventRow_swapped(userId, sessionId, eventName, timestamp) ==
  [user_id |-> PrepareValue(sessionId), session_id |-> PrepareValue(userId),
   event_name |-> PrepareValue(eventName),
   event_timestamp |-> PrepareValue(timestamp)]

eventRow(userId, sessionId, eventName, timestamp) ==
  [user_id |-> PrepareValue(userId), session_id |-> PrepareValue(sessionId),
   event_name |-> PrepareValue(eventName),
   event_timestamp |-> PrepareValue(timestamp)]

handleEvent(payload) ==
  LET c == validateCommonFields(payload)
  IN IF c.thrown THEN Throws(c.error)
     ELSE Awaits(Statement("test_events",
                   eventRow(c.value.userId, c.value.sessionId,
                            Get(payload, "eventName"), c.value.timestamp)),
                 "handleEvent")

\* the code after the await of handleEvent
handleEvent_settled(payload, settled) ==
  IF settled.ok
  THEN Json(200, Msg(<<" event received (logged server-side)">>,
                     Get(payload, "eventName")), NoMsg)
  ELSE Json(500, Msg(<<"Error logging ", " event">>, Get(payload, "eventName")),
            settled.error.message)

\* answer.answer_label || 'N/A'
labelOrDefault(answer) ==
  IF Truthy(Get(answer, "answer_label")) THEN Get(answer, "answer_label")
  ELSE Str(<<"N/A">>)

answerRow(userId, sessionId, answer, label, timestamp) ==
  [user_id |-> PrepareValue(userId), session_id |-> PrepareValue(sessionId),
   question_number |-> PrepareValue(Get(answer, "question_number")),
   question_text |-> PrepareValue(Get(answer, "question_text")),
   answer_value |-> PrepareValue(Get(answer, "answer_value")),
   answer_label |-> PrepareValue(label),
   event_timestamp |-> PrepareValue(timestamp)]

\* the map of handleAnswers building every query from the first answer
answerQueries_first(c, answers) ==
  [i \in 1..Len(answers.v) |->
     answerRow(c.userId, c.sessionId, answers.v[1],
               labelOrDefault(answers.v[1]), c.timestamp)]

\* answers.map(answer => sql`INSERT INTO test_answers ...`)
answerQueries(c, answers) ==
  [i \in 1..Len(answers.v) |->
     answerRow(c.userId, c.sessionId, answers.v[i],
               labelOrDefault(answers.v[i]), c.timestamp)]

\* handleAnswers with the queries awaited one after the other instead of
\* in one transaction
handleAnswers_loose(payload) ==
  LET c == validateCommonFields(payload)
      a == validateAnswers(Get(payload, "answers"))
  IN IF c.thrown THEN Throws(c.error)
     ELSE IF a.thrown THEN Throws(a.error)
     ELSE Awaits([atomic |-> FALSE, table |-> "test_answers",
                  rows |-> answerQueries(c.value, a.value)], "handleAnswers")

handleAnswers(payload) ==
  LET c == validateCommonFields(payload)
      a == validateAnswers(Get(payload, "answers"))
  IN IF c.thrown THEN Throws(c.error)
     ELSE IF a.thrown THEN Throws(a.error)
     ELSE IF \E i \in 1..Len(a.value.v) : IsNullish(a.value.v[i])
     THEN Responds(Json(500, Msg(<<"Database error inserting answers">>, Undef),
                        TypeErrorOf("question_number").message))
     ELSE Awaits(Transaction("test_answers", answerQueries(c.value, a.value)),
                 "handleAnswers")

\* the code after the await of handleAnswers
handleAnswers_settled(payload, settled) ==
  IF settled.ok
  THEN Json(201, Msg(<<"Successfully logged ", " answers.">>,
                     Int1000(Len(Get(payload, "answers").v))), NoMsg)
  ELSE Json(500, Msg(<<"Database error inserting answers">>, Undef),
            settled.error.message)

\* the trait columns with the energy columns filled from traits.mind
traitColumns_copyPaste(traits) ==
  [k \in {"mind", "energy", "nature", "tactics", "identity"} |->
     [percent |-> PrepareValue(Get(Get(traits, IF k = "energy" THEN "mind" ELSE k),
                                   "percent")),
      type |-> PrepareValue(Get(Get(traits, IF k = "energy" THEN "mind" ELSE k),
                                "type"))]]

\* the trait columns of the INSERT INTO test_results
traitColumns(traits) ==
  [k \in {"mind", "energy", "nature", "tactics", "identity"} |->
     [percent |-> PrepareValue(Get(Get(traits, k), "percent")),
      type |-> PrepareValue(Get(Get(traits, k), "type"))]]

\* the row of test_results; resultFull is the column mbti_result_full, which
\* only the last inline handler has (NoColumn elsewhere)
NoColumn == [t |-> "no column"]

resultRow(userId, sessionId, code, resultFull, profileUrl, traits, timestamp) ==
  [user_id |-> PrepareValue(userId), session_id |-> PrepareValue(sessionId),
   code |-> PrepareValue(code), resultFull |-> resultFull,
   profile_url |-> PrepareValue(profileUrl),
   traits |-> traitColumns(traits),
   result_timestamp |-> PrepareValue(timestamp)]

\* handleTestResult reading the common fields without validating them
handleTestResult_commonUnchecked(payload) ==
  LET v == validateTestResult(payload)
  IN IF v.thrown THEN Throws(v.error)
     ELSE Awaits(Statement("test_results",
                   resultRow(Get(payload, "userId"), Get(payload, "sessionId"),
                             v.value.mbtiCode, NoColumn, v.value.profileUrl,
                             v.value.traits, Get(payload, "timestamp"))),
                 "handleTestResult")

handleTestResult(payload) ==
  LET c == validateCommonFields(payload)
      v == validateTestResult(payload)
  IN IF c.thrown THEN Throws(c.error)
     ELSE IF v.thrown THEN Throws(v.error)
     ELSE Awaits(Statement("test_results",
                   resultRow(c.value.userId, c.value.sessionId,
                             v.value.mbtiCode, NoColumn, v.value.profileUrl,
                             v.value.traits, c.value.timestamp)),
                 "handleTestResult")

\* the code after the await of handleTestResult
handleTestResult_settled(payload, settled) ==
  IF settled.ok
  THEN Json(201, Msg(<<"Test result logged successfully.">>, Undef), NoMsg)
  ELSE Json(500, Msg(<<"Database error inserting test result">>, Undef),
            settled.error.message)

(* ------------------------------------------------------------------ *)
(* Refactored log handler: CORS, preflight, main handler               *)
(* ------------------------------------------------------------------ *)
setCorsHeaders ==
  [h \in {"Access-Control-Allow-Origin", "Access-Control-Allow-Methods",
          "Access-Control-Allow-Headers", "Access-Control-Allow-Credentials"} |->
     CASE h = "Access-Control-Allow-Origin" -> "https://www.16personalities.com"
       [] h = "Access-Control-Allow-Methods" -> "POST, OPTIONS"
       [] h = "Access-Control-Allow-Headers" -> "Content-Type"
       [] OTHER -> "true"]

\* handlePreflight returning false after it has ended the response
handlePreflight_falsy(method) ==
  IF method = "OPTIONS" THEN [sent |-> <<End(200)>>, ret |-> FALSE]
  ELSE [sent |-> <<>>, ret |-> FALSE]

\* res.status(200).end() returns the response object, which is truthy
handlePreflight(method) ==
  IF method = "OPTIONS" THEN [sent |-> <<End(200)>>, ret |-> TRUE]
  ELSE [sent |-> <<>>, ret |-> FALSE]

\* the method gate answering with the status of a client error
MethodNotAllowed_400 == Json(400, Msg(<<"Method Not Allowed">>, Undef), NoMsg)

MethodNotAllowed == Json(405, Msg(<<"Method Not Allowed">>, Undef), NoMsg)
InvalidPayloadFormat ==
  Json(400, Msg(<<"Invalid payload format. Expected JSON object.">>, Undef), NoMsg)

\* the catch block answering a validation failure with 422
handlerCatch_422(error) ==
  IF error.name = "ValidationError"
  THEN Json(422, Msg(<<"Data validation failed">>, Undef), error.message)
  ELSE IF error.name = "SyntaxError"
  THEN Json(400, Msg(<<"Invalid JSON format">>, Undef), error.message)
  ELSE Json(500, Msg(<<"Internal Server Error processing request.">>, Undef),
            error.message)

\* the catch block of the refactored handler
handlerCatch(error) ==
  IF error.name = "ValidationError"
  THEN Json(400, Msg(<<"Data validation failed">>, Undef), error.message)
  ELSE IF error.name = "SyntaxError"
  THEN Json(400, Msg(<<"Invalid JSON format">>, Undef), error.message)
  ELSE Json(500, Msg(<<"Internal Server Error processing request.">>, Undef),
            error.message)

\* the event dispatch condition looking at the type alone
IsLoggedEvent_typeOnly(payload) == Get(payload, "type") = Str(<<"event">>)

IsLoggedEvent(payload) ==
  /\ Get(payload, "type") = Str(<<"event">>)
  /\ \/ Get(payload, "eventName") = Str(<<"test_started">>)
     \/ Get(payload, "eventName") = Str(<<"test_finished">>)

\* the routing of the refactored handler
handlerRoute(payload) ==
  IF IsLoggedEvent(payload) THEN handleEvent(payload)
  ELSE IF Get(payload, "type") = Str(<<"answers">>) THEN handleAnswers(payload)
  ELSE IF Get(payload, "type") = Str(<<"result">>) THEN handleTestResult(payload)
  ELSE Responds(Json(400, Msg(<<"Invalid payload type specified: ">>,
                              Get(payload, "type")), NoMsg))

\* the stages a routed request goes through after the payload-shape gate
RouteTrace(payload, h) ==
  IF ~IsLoggedEvent(payload)
     /\ Get(payload, "type") \notin {Str(<<"answers">>), Str(<<"result">>)}
  THEN <<"dispatch", "respond">>
  ELSE IF h.k = "await" THEN <<"dispatch", "validate", "persist">>
  ELSE <<"dispatch", "validate", "respond">>

handler(method, body) ==
  LET pf == handlePreflight(method)
      pre == <<"cors", "preflight">>
  IN IF pf.ret
     THEN Step(setCorsHeaders, pre \o <<"respond">>, pf.sent, NoOp, "none")
     ELSE IF method # "POST"
     THEN Step(("Allow" :> "POST, OPTIONS") @@ setCorsHeaders,
               pre \o <<"methodGate", "respond">>,
               Append(pf.sent, MethodNotAllowed), NoOp, "none")
     ELSE IF ~Truthy(body) \/ TypeOf(body) # "object"
     THEN Step(setCorsHeaders, pre \o <<"methodGate", "shapeGate", "respond">>,
               Append(pf.sent, InvalidPayloadFormat), NoOp, "none")
     ELSE LET h == handlerRoute(body)
              tr == pre \o <<"methodGate", "shapeGate">> \o RouteTrace(body, h)
          IN CASE h.k = "throw" ->
                    Step(setCorsHeaders, tr,
                         Append(pf.sent, handlerCatch(h.error)), NoOp, "none")
               [] h.k = "respond" ->
                    Step(setCorsHeaders, tr, Append(pf.sent, h.response),
                         NoOp, "none")
               [] OTHER -> Step(setCorsHeaders, tr, pf.sent, h.op, h.cont)

(* ------------------------------------------------------------------ *)
(* Diagnostic handlers                                                 *)
(* ------------------------------------------------------------------ *)
DiagHeaders(origin) ==
  [h \in {"Access-Control-Allow-Origin", "Access-Control-Allow-Methods",
          "Access-Control-Allow-Headers"} |->
     CASE h = "Access-Control-Allow-Origin" -> origin
       [] h = "Access-Control-Allow-Methods" -> "GET, OPTIONS"
       [] OTHER -> "Content-Type"]

\* api/hello.js
handler_hello(method, body) ==
  IF method = "OPTIONS"
  THEN Step(DiagHeaders("*"), <<"cors", "preflight", "respond">>,
            <<End(200)>>, NoOp, "none")
  ELSE IF method # "GET"
  THEN Step(("Allow" :> "GET, OPTIONS") @@ DiagHeaders("*"),
            <<"cors", "preflight", "methodGate", "respond">>,
            <<MethodNotAllowed>>, NoOp, "none")
  ELSE Step(DiagHeaders("*"), <<"cors", "preflight", "methodGate", "respond">>,
            <<Json(200, Msg(<<"Hello, World!">>, Undef), NoMsg)>>, NoOp, "none")

\* the server-time handler of api/check-time.js
handler_checkTime(method, body) ==
  IF method = "OPTIONS"
  THEN Step(DiagHeaders("https://www.16personalities.com"),
            <<"cors", "preflight", "respond">>, <<End(200)>>, NoOp, "none")
  ELSE IF method # "GET"
  THEN Step(("Allow" :> "GET, OPTIONS")
              @@ DiagHeaders("https://www.16personalities.com"),
            <<"cors", "preflight", "methodGate", "respond">>,
            <<MethodNotAllowed>>, NoOp, "none")
  ELSE Step(DiagHeaders("https://www.16personalities.com"),
            <<"cors", "preflight", "methodGate", "respond">>,
            <<Json(200, Msg(<<"online">>, Undef), NoMsg)>>, NoOp, "none")

(* ------------------------------------------------------------------ *)
(* Earlier inline log handlers (the three "api/log-answers.js" texts)  *)
(* ------------------------------------------------------------------ *)
InlineHeaders3 ==
  [h \in {"Access-Control-Allow-Origin", "Access-Control-Allow-Methods",
          "Access-Control-Allow-Headers"} |-> setCorsHeaders[h]]

InlineGates == <<"cors", "preflight", "methodGate", "shapeGate">>

\* the test of the common fields, the same text in the three inline handlers
inlineCommonInvalid(payload) ==
  LET userId == Get(payload, "userId")
      sessionId == Get(payload, "sessionId")
      timestamp == Get(payload, "timestamp")
  IN \/ ~Truthy(userId) \/ ~Truthy(sessionId) \/ ~Truthy(timestamp)
     \/ TypeOf(userId) # "string" \/ TypeOf(sessionId) # "string"
     \/ TypeOf(timestamp) # "string"

MissingCommon ==
  Json(400, Msg(<<"Missing", " or invalid required fields: userId (string), sessionId (string), timestamp (string)">>,
                Undef), NoMsg)
MissingAnswers ==
  Json(400, Msg(<<"Missing", " or empty \"answers\" array.">>, Undef), NoMsg)

\* answers.map(answer => { if (...) throw ...; return sql`...` }): the first
\* element that fails stops the map; flag is the isValidationError mark
RECURSIVE inlineMap(_, _, _)
inlineMap(answers, i, flag) ==
  IF i > Len(answers.v) THEN Return(answers)
  ELSE IF IsNullish(answers.v[i]) THEN Throw(TypeErrorOf("question_number"))
  ELSE IF answerFails(answers.v[i])
       THEN Throw(Err("Error", Msg(InvalidAnswerText, answers.v[i]), flag))
  ELSE inlineMap(answers, i + 1, flag)

\* the queries of the first inline handler: answer_label is passed as it is
rawQueries(payload) ==
  [i \in 1..Len(Get(payload, "answers").v) |->
     answerRow(Get(payload, "userId"), Get(payload, "sessionId"),
               Get(payload, "answers").v[i],
               Get(Get(payload, "answers").v[i], "answer_label"),
               Get(payload, "timestamp"))]

\* the queries of the later inline handlers: answer_label || 'N/A'
labelledQueries(payload) ==
  [i \in 1..Len(Get(payload, "answers").v) |->
     answerRow(Get(payload, "userId"), Get(payload, "sessionId"),
               Get(payload, "answers").v[i],
               labelOrDefault(Get(payload, "answers").v[i]),
               Get(payload, "timestamp"))]

inlineEventStatement(payload) ==
  Statement("test_events",
            eventRow(Get(payload, "userId"), Get(payload, "sessionId"),
                     Get(payload, "eventName"), Get(payload, "timestamp")))

\* the catch block of the first inline handler: the class of an error is
\* read off the start of its message
logAnswers_catch(error) ==
  IF \/ StartsWith(error.message.text, <<"Invalid answer format">>)
     \/ StartsWith(error.message.text, <<"Missing">>)
  THEN Json(400, Msg(<<"Data validation failed">>, Undef), error.message)
  ELSE Json(500, Msg(<<"Internal Server Error processing request.">>, Undef),
            error.message)

\* the first inline handler, after its method gate
logAnswers_body(payload) ==
  IF ~Truthy(payload) \/ TypeOf(payload) # "object"
  THEN Step(InlineHeaders3, InlineGates \o <<"respond">>,
            <<InvalidPayloadFormat>>, NoOp, "none")
  ELSE IF inlineCommonInvalid(payload)
  THEN Step(InlineHeaders3, InlineGates \o <<"validate", "respond">>,
            <<MissingCommon>>, NoOp, "none")
  ELSE IF IsLoggedEvent(payload)
  THEN Step(InlineHeaders3, InlineGates \o <<"validate", "dispatch", "persist">>,
            <<>>, inlineEventStatement(payload), "logAnswers_event")
  ELSE IF Get(payload, "type") = Str(<<"answers">>)
  THEN LET answers == Get(payload, "answers")
           tr == InlineGates \o <<"validate", "dispatch", "validate">>
       IN IF ~IsArray(answers) \/ Len(answers.v) = 0
          THEN Step(InlineHeaders3, tr \o <<"respond">>, <<MissingAnswers>>,
                    NoOp, "none")
          ELSE IF inlineMap(answers, 1, FALSE).thrown
          THEN Step(InlineHeaders3, tr \o <<"respond">>,
                    <<logAnswers_catch(inlineMap(answers, 1, FALSE).error)>>,
                    NoOp, "none")
          ELSE Step(InlineHeaders3, tr \o <<"persist">>, <<>>,
                    Transaction("test_answers", rawQueries(payload)),
                    "logAnswers_answers")
  ELSE Step(InlineHeaders3, InlineGates \o <<"validate", "dispatch", "respond">>,
            <<Json(400, Msg(<<"Invalid payload type specified.">>, Undef), NoMsg)>>,
            NoOp, "none")

handler_logAnswers(method, body) ==
  IF method = "OPTIONS"
  THEN Step(InlineHeaders3, <<"cors", "preflight", "respond">>, <<End(200)>>,
            NoOp, "none")
  ELSE IF method # "POST"
  THEN Step(("Allow" :> "POST, OPTIONS") @@ InlineHeaders3,
            <<"cors", "preflight", "methodGate", "respond">>,
            <<MethodNotAllowed>>, NoOp, "none")
  ELSE logAnswers_body(body)

\* the first inline handler after the await of its event insert: the error
\* is logged and the success response is sent all the same
logAnswers_event_settled(payload, settled) ==
  Json(200, Msg(<<" event received (logged server-side)">>,
                Get(payload, "eventName")), NoMsg)

\* the first inline handler after the await of its transaction
logAnswers_answers_settled(payload, settled) ==
  IF settled.ok
  THEN Json(201, Msg(<<"Successfully logged ", " answers.">>,
                     Int1000(Len(Get(payload, "answers").v))), NoMsg)
  ELSE logAnswers_catch(settled.error)

\* the validation of a result payload in the later inline handlers: the
\* response it returns, or Pass
Pass == [k |-> "pass"]

inlineResultCheck(payload) ==
  LET profileUrl == Get(payload, "profileUrl")
      mbtiResult == Get(payload, "mbtiResult")
      mbtiCode == Get(payload, "mbtiCode")
      traits == Get(payload, "traits")
  IN IF \/ ~Truthy(profileUrl) \/ TypeOf(profileUrl) # "string"
        \/ ~StartsWith(profileUrl.v, ProfilePrefix)
     THEN Responds(Json(400, Msg(<<"Missing", " or invalid profileUrl format.">>,
                                 Undef), NoMsg))
     ELSE IF ~Truthy(mbtiResult) \/ TypeOf(mbtiResult) # "string"
     THEN Responds(Json(400, Msg(<<"Missing", " or invalid mbtiResult (full string).">>,
                                 Undef), NoMsg))
     ELSE IF Truthy(mbtiCode) /\ TypeOf(mbtiCode) # "string"
     THEN Responds(Json(400, Msg(<<"Invalid mbtiCode format (should be string or null).">>,
                                 Undef), NoMsg))
     ELSE IF ~isValidTraitObject(traits)
     THEN Responds(Json(400, Msg(<<"Invalid or incomplete traits object.">>,
                                 Undef), NoMsg))
     ELSE Pass

UnknownType(payload) ==
  Json(400, Msg(<<"Invalid payload type specified: ">>, Get(payload, "type")),
       NoMsg)

\* the catch of stage 1 answering 400 whatever the error
staged_prepCatch_always400(error) ==
  Json(400, Msg(<<"Data validation failed for answers">>, Undef),
       error.message)

\* the inline handler with staged answers validation: the catch of stage 1
staged_prepCatch(error) ==
  IF error.isValidationError
  THEN Json(400, Msg(<<"Data validation failed for answers">>, Undef),
            error.message)
  ELSE Json(500, Msg(<<"Internal server error processing answers">>, Undef),
            error.message)

staged_resultStatement(payload) ==
  Statement("test_results",
            resultRow(Get(payload, "userId"), Get(payload, "sessionId"),
                      Get(payload, "mbtiCode"), NoColumn,
                      Get(payload, "profileUrl"), Get(payload, "traits"),
                      Get(payload, "timestamp")))

\* the staged inline handler, after its method gate
staged_body(payload) ==
  IF ~Truthy(payload) \/ TypeOf(payload) # "object"
  THEN Step(setCorsHeaders, InlineGates \o <<"respond">>,
            <<InvalidPayloadFormat>>, NoOp, "none")
  ELSE IF inlineCommonInvalid(payload)
  THEN Step(setCorsHeaders, InlineGates \o <<"validate", "respond">>,
            <<MissingCommon>>, NoOp, "none")
  ELSE IF IsLoggedEvent(payload)
  THEN Step(setCorsHeaders, InlineGates \o <<"validate", "dispatch", "persist">>,
            <<>>, inlineEventStatement(payload), "staged_event")
  ELSE IF Get(payload, "type") = Str(<<"answers">>)
  THEN LET answers == Get(payload, "answers")
           tr == InlineGates \o <<"validate", "dispatch", "validate">>
       IN IF ~IsArray(answers) \/ Len(answers.v) = 0
          THEN Step(setCorsHeaders, tr \o <<"respond">>, <<MissingAnswers>>,
                    NoOp, "none")
          ELSE IF inlineMap(answers, 1, TRUE).thrown
          THEN Step(setCorsHeaders, tr \o <<"respond">>,
                    <<staged_prepCatch(inlineMap(answers, 1, TRUE).error)>>,
                    NoOp, "none")
          ELSE Step(setCorsHeaders, tr \o <<"persist">>, <<>>,
                    Transaction("test_answers", labelledQueries(payload)),
                    "staged_answers")
  ELSE IF Get(payload, "type") = Str(<<"result">>)
  THEN LET tr == InlineGates \o <<"validate", "dispatch", "validate">>
       IN IF inlineResultCheck(payload).k = "respond"
          THEN Step(setCorsHeaders, tr \o <<"respond">>,
                    <<inlineResultCheck(payload).response>>, NoOp, "none")
          ELSE Step(setCorsHeaders, tr \o <<"persist">>, <<>>,
                    staged_resultStatement(payload), "staged_result")
  ELSE Step(setCorsHeaders, InlineGates \o <<"validate", "dispatch", "respond">>,
            <<UnknownType(payload)>>, NoOp, "none")

handler_staged(method, body) ==
  IF method = "OPTIONS"
  THEN Step(setCorsHeaders, <<"cors", "preflight", "respond">>, <<End(200)>>,
            NoOp, "none")
  ELSE IF method # "POST"
  THEN Step(("Allow" :> "POST, OPTIONS") @@ setCorsHeaders,
            <<"cors", "preflight", "methodGate", "respond">>,
            <<MethodNotAllowed>>, NoOp, "none")
  ELSE staged_body(body)

\* the event insert of the later inline handlers, after its await
inlineEvent_settled(payload, settled) ==
  IF settled.ok
  THEN Json(200, Msg(<<" event received (logged server-side)">>,
                     Get(payload, "eventName")), NoMsg)
  ELSE Json(500, Msg(<<"Error logging ", " event">>, Get(payload, "eventName")),
            settled.error.message)

\* stage 2 of the staged inline handler, after the await of the transaction
staged_answers_settled(payload, settled) ==
  IF settled.ok
  THEN Json(201, Msg(<<"Successfully logged ", " answers.">>,
                     Int1000(Len(Get(payload, "answers").v))), NoMsg)
  ELSE Json(500, Msg(<<"Database error inserting answers">>, Undef),
            settled.error.message)

\* the result insert of the later inline handlers, after its await
inlineResult_settled(payload, settled) ==
  IF settled.ok
  THEN Json(201, Msg(<<"Test result logged successfully.">>, Undef), NoMsg)
  ELSE Json(500, Msg(<<"Database error inserting test result">>, Undef),
            settled.error.message)

\* The last inline handler wraps the map and the transaction in one try
\* with two catch clauses; the first clause, catch(validationError), takes
\* every exception and the second one is never entered.
singleTry_catch(error) ==
  Json(400, Msg(<<"Data validation failed for answers">>, Undef), error.message)

\* mbtiCode || null
codeOrNull(mbtiCode) == IF Truthy(mbtiCode) THEN mbtiCode ELSE Null

singleTry_resultStatement(payload) ==
  Statement("test_results",
            resultRow(Get(payload, "userId"), Get(payload, "sessionId"),
                      codeOrNull(Get(payload, "mbtiCode")),
                      PrepareValue(Get(payload, "mbtiResult")),
                      Get(payload, "profileUrl"), Get(payload, "traits"),
                      Get(payload, "timestamp")))

\* the last inline handler, after its method gate
singleTry_body(payload) ==
  IF ~Truthy(payload) \/ TypeOf(payload) # "object"
  THEN Step(setCorsHeaders, InlineGates \o <<"respond">>,
            <<InvalidPayloadFormat>>, NoOp, "none")
  ELSE IF inlineCommonInvalid(payload)
  THEN Step(setCorsHeaders, InlineGates \o <<"validate", "respond">>,
            <<MissingCommon>>, NoOp, "none")
  ELSE IF IsLoggedEvent(payload)
  THEN Step(setCorsHeaders, InlineGates \o <<"validate", "dispatch", "persist">>,
            <<>>, inlineEventStatement(payload), "singleTry_event")
  ELSE IF Get(payload, "type") = Str(<<"answers">>)
  THEN LET answers == Get(payload, "answers")
           tr == InlineGates \o <<"validate", "dispatch", "validate">>
       IN IF ~IsArray(answers) \/ Len(answers.v) = 0
          THEN Step(setCorsHeaders, tr \o <<"respond">>, <<MissingAnswers>>,
                    NoOp, "none")
          ELSE IF inlineMap(answers, 1, FALSE).thrown
          THEN Step(setCorsHeaders, tr \o <<"respond">>,
                    <<singleTry_catch(inlineMap(answers, 1, FALSE).error)>>,
                    NoOp, "none")
          ELSE Step(setCorsHeaders, tr \o <<"persist">>, <<>>,
                    Transaction("test_answers", labelledQueries(payload)),
                    "singleTry_answers")
  ELSE IF Get(payload, "type") = Str(<<"result">>)
  THEN LET tr == InlineGates \o <<"validate", "dispatch", "validate">>
       IN IF inlineResultCheck(payload).k = "respond"
          THEN Step(setCorsHeaders, tr \o <<"respond">>,
                    <<inlineResultCheck(payload).response>>, NoOp, "none")
          ELSE Step(setCorsHeaders, tr \o <<"persist">>, <<>>,
                    singleTry_resultStatement(payload), "singleTry_result")
  ELSE Step(setCorsHeaders, InlineGates \o <<"validate", "dispatch", "respond">>,
            <<UnknownType(payload)>>, NoOp, "none")

handler_singleTry(method, body) ==
  IF method = "OPTIONS"
  THEN Step(setCorsHeaders, <<"cors", "preflight", "respond">>, <<End(200)>>,
            NoOp, "none")
  ELSE IF method # "POST"
  THEN Step(("Allow" :> "POST, OPTIONS") @@ setCorsHeaders,
            <<"cors", "preflight", "methodGate", "respond">>,
            <<MethodNotAllowed>>, NoOp, "none")
  ELSE singleTry_body(body)

\* the last inline handler after the await of its transaction
singleTry_answers_settled(payload, settled) ==
  IF settled.ok
  THEN Json(201, Msg(<<"Successfully logged ", " answers.">>,
                     Int1000(Len(Get(payload, "answers").v))), NoMsg)
  ELSE singleTry_catch(settled.error)

(* ------------------------------------------------------------------ *)
(* Endpoints                                                           *)
(* ------------------------------------------------------------------ *)
LogEndpoints == {"log", "logAnswers", "staged", "singleTry"}
Endpoints == {"hello", "checkTime"} \cup LogEndpoints

\* the handler of an endpoint, up to its first await
Invoke(endpoint, method, body) ==
  CASE endpoint = "hello" -> handler_hello(method, body)
    [] endpoint = "checkTime" -> handler_checkTime(method, body)
    [] endpoint = "log" -> handler(method, body)
    [] endpoint = "logAnswers" -> handler_logAnswers(method, body)
    [] endpoint = "staged" -> handler_staged(method, body)
    [] OTHER -> handler_singleTry(method, body)

\* the code that runs when the awaited store operation settles
Settle(cont, payload, settled) ==
  CASE cont = "handleEvent" -> handleEvent_settled(payload, settled)
    [] cont = "handleAnswers" -> handleAnswers_settled(payload, settled)
    [] cont = "handleTestResult" -> handleTestResult_settled(payload, settled)
    [] cont = "logAnswers_event" -> logAnswers_event_settled(payload, settled)
    [] cont = "logAnswers_answers" -> logAnswers_answers_settled(payload, settled)
    [] cont \in {"staged_event", "singleTry_event"} ->
         inlineEvent_settled(payload, settled)
    [] cont = "staged_answers" -> staged_answers_settled(payload, settled)
    [] cont = "singleTry_answers" -> singleTry_answers_settled(payload, settled)
    [] OTHER -> inlineResult_settled(payload, settled)

(* ------------------------------------------------------------------ *)
(* Request inputs                                                      *)
(* ------------------------------------------------------------------ *)
Methods == {"OPTIONS", "GET", "POST"}

ValidCommon ==
  [userId |-> Str(<<"u1">>), sessionId |-> Str(<<"s1">>),
   timestamp |-> Str(<<"2024-01-01T00:00:00Z">>)]

InvalidCommons ==
  { [sessionId |-> Str(<<"s1">>), timestamp |-> Str(<<"2024-01-01T00:00:00Z">>)],
    [userId |-> Str(<<"u1">>), sessionId |-> Int1000(7),
     timestamp |-> Str(<<"2024-01-01T00:00:00Z">>)],
    [userId |-> Str(<<"u1">>), sessionId |-> Str(<<"s1">>),
     timestamp |-> Str(<<>>)] }

EventNames ==
  {Str(<<"test_started">>), Str(<<"test_finished">>), Str(<<"test_paused">>),
   Undef, Int1000(1)}

EventPart(e) == Fld("type", Str(<<"event">>)) @@ Fld("eventName", e)

A1 ==
  Obj([question_number |-> Int1000(1), question_text |-> Str(<<"Q1">>),
       answer_value |-> Int1000(3), answer_label |-> Str(<<"Agree">>)])
A2 ==
  Obj([question_number |-> Int1000(0), question_text |-> Str(<<"Q2">>),
       answer_value |-> Int1000(0)])
A3 ==
  Obj([question_number |-> Int1000(2), question_text |-> Str(<<"Q3">>),
       answer_value |-> Str(<<>>), answer_label |-> Str(<<>>)])
B1 == Obj([question_text |-> Str(<<"Q2">>)])
B2 ==
  Obj([question_number |-> Null, question_text |-> Str(<<"Q1">>),
       answer_value |-> Int1000(3)])
B3 ==
  Obj([question_number |-> Int1000(1), question_text |-> Str(<<>>),
       answer_value |-> Int1000(3)])
B4 == Obj([question_number |-> Int1000(1), question_text |-> Str(<<"Q1">>)])

AnswerElements == {A1, A2, A3, B1, B3, B4, Null}

AnswerArrays == UNION {[1..n -> AnswerElements] : n \in 0..MaxAnswers}

AnswersValues == {Arr(a) : a \in AnswerArrays} \cup {Undef, Str(<<"Q1">>)}

AnswersPart(a) == Fld("type", Str(<<"answers">>)) @@ Fld("answers", a)

TS(p, ty) == Obj([percent |-> Num(p), type |-> Str(ty)])

T1 ==
  Obj([mind |-> TS(60000, <<"Introverted">>), energy |-> TS(55000, <<"Intuitive">>),
       nature |-> TS(70000, <<"Thinking">>), tactics |-> TS(40000, <<"Judging">>),
       identity |-> TS(50000, <<"Assertive">>)])
T2 ==
  Obj([mind |-> TS(0, <<"Introverted">>), energy |-> TS(100000, <<"Intuitive">>),
       nature |-> TS(70500, <<" ", "Thinking", " ">>),
       tactics |-> TS(40000, <<"Judging">>),
       identity |-> TS(50000, <<"Assertive">>)])
T3 ==
  Obj([mind |-> TS(60000, <<"Introverted">>), energy |-> TS(100001, <<"Intuitive">>),
       nature |-> TS(70000, <<"Thinking">>), tactics |-> TS(40000, <<"Judging">>),
       identity |-> TS(50000, <<"Assertive">>)])

ProfileUrls ==
  {Str(ProfilePrefix \o <<"abcd">>), Str(ProfilePrefix),
   Str(<<"http://evil.example/?u=">> \o ProfilePrefix \o <<"abcd">>),
   Str(<<"https://www.16personalities.com/", "profile">>), Undef}
MbtiResults == {Str(<<"INTJ Architect">>), Undef, Int1000(5)}
MbtiCodes == {Str(<<"INTJ">>), Undef, Null, Int1000(0), Int1000(5), Str(<<>>)}
TraitsValues == {T1, T2, T3, Undef}

ResultPart(u, m, c, t) ==
  Fld("type", Str(<<"result">>)) @@ Fld("profileUrl", u) @@ Fld("mbtiResult", m)
    @@ Fld("mbtiCode", c) @@ Fld("traits", t)

\* the result payloads in which at most MaxOddFields of the four fields
\* differ from those of the valid payload of the specification's scenario
Odd(x, good) == IF x = good THEN 0 ELSE 1

ResultParts ==
  {ResultPart(u, m, c, t) :
     <<u, m, c, t>> \in
       {q \in ProfileUrls \X MbtiResults \X MbtiCodes \X TraitsValues :
          Odd(q[1], Str(ProfilePrefix \o <<"abcd">>))
            + Odd(q[2], Str(<<"INTJ Architect">>))
            + Odd(q[3], Str(<<"INTJ">>)) + Odd(q[4], T1) <= MaxOddFields}}

OtherPart(ty) == Fld("type", ty)

TypeParts ==
  {EventPart(e) : e \in EventNames}
    \cup {AnswersPart(a) : a \in AnswersValues}
    \cup ResultParts
    \cup {OtherPart(ty) : ty \in {Undef, Str(<<"ping">>)}}

FewTypeParts ==
  {EventPart(Str(<<"test_started">>)), AnswersPart(Arr(<<A1, A2>>)),
   ResultPart(Str(ProfilePrefix \o <<"abcd">>), Str(<<"INTJ Architect">>),
              Str(<<"INTJ">>), T1),
   OtherPart(Str(<<"ping">>))}

\* req.body of a POST: a JSON object, or a JSON value that is not an object
Bodies ==
  {Obj(ValidCommon @@ p) : p \in TypeParts}
    \cup {Obj(c @@ p) : c \in InvalidCommons, p \in FewTypeParts}
    \cup {Null, Str(<<"hello">>), Arr(<<>>)}

\* req.body of a request that no handler reads the body of: none, or a valid
\* answers payload
FewBodies == {Undef, Obj(ValidCommon @@ AnswersPart(Arr(<<A1, A2>>)))}

\* the error a failing store operation rejects with
DbErrors ==
  {Err("NeonDbError", Msg(<<"connection terminated unexpectedly">>, Undef), FALSE),
   Err("NeonDbError", Msg(<<"Missing", " session row for answer">>, Undef), FALSE)}

(* ------------------------------------------------------------------ *)
(* State machine                                                       *)
(* ------------------------------------------------------------------ *)
Reqs == 1..MaxReq

NoRequest == [endpoint |-> "none", method |-> "none", body |-> Undef]
NoProbe == [fn |-> "none"]

InitRequests ==
  /\ req = [r \in Reqs |-> NoRequest]
  /\ pc = [r \in Reqs |-> "idle"]
  /\ headers = [r \in Reqs |-> <<>>]
  /\ responses = [r \in Reqs |-> <<>>]
  /\ trace = [r \in Reqs |-> <<>>]
  /\ pending = [r \in Reqs |-> [op |-> NoOp, cont |-> "none"]]
  /\ executed = [r \in Reqs |-> <<>>]
  /\ outcome = [r \in Reqs |-> NotSettled]
  /\ calls = [r \in Reqs |-> 0]
  /\ store = [test_events |-> <<>>, test_answers |-> <<>>, test_results |-> <<>>]

Init == InitRequests /\ probe = NoProbe

\* A request arrives.  One function instance serves one request at a time.
Receive(r) ==
  /\ pc[r] = "idle"
  /\ \A q \in Reqs : (q < r => pc[q] = "done") /\ (q > r => pc[q] = "idle")
  /\ \E e \in Endpoints, m \in Methods :
       \E b \in (IF m = "POST" /\ e \in LogEndpoints THEN Bodies ELSE FewBodies) :
         req' = [req EXCEPT ![r] = [endpoint |-> e, method |-> m, body |-> b]]
  /\ pc' = [pc EXCEPT ![r] = "received"]
  /\ UNCHANGED <<headers, responses, trace, pending, executed, outcome, calls,
                 store, probe>>

\* The handler runs up to its first await.
Run(r) ==
  /\ pc[r] = "received"
  /\ LET st == Invoke(req[r].endpoint, req[r].method, req[r].body)
     IN /\ headers' = [headers EXCEPT ![r] = st.headers]
        /\ responses' = [responses EXCEPT ![r] = st.responses]
        /\ trace' = [trace EXCEPT ![r] = st.trace]
        /\ pending' = [pending EXCEPT ![r] = [op |-> st.op, cont |-> st.cont]]
        /\ calls' = [calls EXCEPT ![r] = IF st.op = NoOp THEN 0 ELSE 1]
        /\ pc' = [pc EXCEPT ![r] = IF st.op = NoOp THEN "done" ELSE "awaiting"]
  /\ UNCHANGED <<req, executed, outcome, store, probe>>

Stored(r, row) == [req |-> r, row |-> row]

\* INSERT INTO with ON CONFLICT DO NOTHING on the whole row
Insert_dedupe(table, new) ==
  table \o SelectSeq(new, LAMBDA x :
                             \A i \in 1..Len(table) : table[i].row # x.row)

\* the rows of committed INSERT INTO statements join the table
Insert(table, new) == table \o new

\* The store executes one statement of the awaited operation: inside a
\* transaction its row stays invisible until the commit, outside it is
\* committed at once.
ExecStatement(r) ==
  /\ pc[r] = "awaiting"
  /\ LET op == pending[r].op
     IN \E i \in 1..Len(op.rows) :
          /\ \A j \in 1..Len(executed[r]) : executed[r][j] # i
          /\ op.atomic \/ i = Len(executed[r]) + 1
          /\ executed' = [executed EXCEPT ![r] = Append(@, i)]
          /\ store' = IF op.atomic THEN store
                      ELSE [store EXCEPT ![op.table] =
                              Insert(@, <<Stored(r, op.rows[i])>>)]
  /\ UNCHANGED <<req, pc, headers, responses, trace, pending, outcome, calls,
                 probe>>

\* The store operation succeeds; a transaction commits all its rows at once.
Commit(r) ==
  /\ pc[r] = "awaiting"
  /\ LET op == pending[r].op
     IN /\ Len(executed[r]) = Len(op.rows)
        /\ store' = IF op.atomic
                    THEN [store EXCEPT ![op.table] =
                            Insert(@, [j \in 1..Len(op.rows) |->
                                         Stored(r, op.rows[executed[r][j]])])]
                    ELSE store
  /\ outcome' = [outcome EXCEPT ![r] = Fulfilled]
  /\ trace' = [trace EXCEPT ![r] = Append(@, "returned")]
  /\ pc' = [pc EXCEPT ![r] = "settled"]
  /\ UNCHANGED <<req, headers, responses, pending, executed, calls, probe>>

\* The store operation fails: a transaction is rolled back, a statement
\* outside a transaction that has not been executed is not executed.
Fail(r) ==
  /\ pc[r] = "awaiting"
  /\ pending[r].op.atomic \/ Len(executed[r]) < Len(pending[r].op.rows)
  /\ \E e \in DbErrors : outcome' = [outcome EXCEPT ![r] = Rejected(e)]
  /\ trace' = [trace EXCEPT ![r] = Append(@, "returned")]
  /\ pc' = [pc EXCEPT ![r] = "settled"]
  /\ UNCHANGED <<req, headers, responses, pending, executed, calls, store,
                 probe>>

\* The handler resumes after its await and responds.
Resume(r) ==
  /\ pc[r] = "settled"
  /\ responses' = [responses EXCEPT ![r] =
                     Append(@, Settle(pending[r].cont, req[r].body, outcome[r]))]
  /\ trace' = [trace EXCEPT ![r] = Append(@, "respond")]
  /\ pc' = [pc EXCEPT ![r] = "done"]
  /\ UNCHANGED <<req, headers, pending, executed, outcome, calls, store, probe>>

Next ==
  \E r \in Reqs :
    \/ Receive(r)
    \/ Run(r)
    \/ ExecStatement(r)
    \/ Commit(r)
    \/ Fail(r)
    \/ Resume(r)

Spec == Init /\ [][Next]_vars

(* ------------------------------------------------------------------ *)
(* isValidTraitObject applied on its own                               *)
(* ------------------------------------------------------------------ *)
GoodEntry == TS(60000, <<"Introverted">>)

TraitEntries ==
  {GoodEntry, TS(0, <<"Judging">>), TS(100000, <<"Assertive">>),
   TS(-1, <<"Judging">>), TS(100001, <<"Assertive">>),
   TS(50000, <<" ">>), TS(50000, <<>>), TS(50500, <<" ", "Thinking", " ">>),
   Obj([percent |-> Str(<<"60">>), type |-> Str(<<"Introverted">>)]),
   Obj([percent |-> Int1000(60)]), Obj([type |-> Str(<<"Introverted">>)]),
   Obj([percent |-> Int1000(60), type |-> Int1000(1)]),
   Undef, Null, Int1000(5), Str(<<"Introverted">>)}

TraitKeys == {requiredTraits[i] : i \in 1..Len(requiredTraits)}

\* the object literal with the entries f, an undefined entry being left out
TraitsObject(f) == Obj([k \in {x \in TraitKeys : f[x] # Undef} |-> f[k]])

TraitInputs ==
  {TraitsObject(f) :
     f \in {g \in [TraitKeys -> TraitEntries] :
              Cardinality({k \in TraitKeys : g[k] # GoodEntry}) <= MaxOddTraits}}
    \cup {Undef, Null, Str(<<"traits">>), Arr(<<GoodEntry>>), Int1000(1)}

InitTraits ==
  /\ InitRequests
  /\ probe \in {[fn |-> "isValidTraitObject", arg |-> t, applied |-> FALSE,
                 result |-> FALSE] : t \in TraitInputs}

ApplyTraits ==
  /\ probe.fn = "isValidTraitObject"
  /\ ~probe.applied
  /\ probe' = [probe EXCEPT !.applied = TRUE,
                            !.result = isValidTraitObject(probe.arg)]
  /\ UNCHANGED <<req, pc, headers, responses, trace, pending, executed,
                 outcome, calls, store>>

NextTraits == ApplyTraits

SpecTraits == InitTraits /\ [][NextTraits]_vars

(* ------------------------------------------------------------------ *)
(* Properties                                                          *)
(* ------------------------------------------------------------------ *)
Body(r) == req[r].body

IsLogPost(r) ==
  /\ req[r].endpoint \in LogEndpoints
  /\ req[r].method = "POST"
  /\ Body(r).t = "object"

HasType(r, ty) == IsLogPost(r) /\ Get(Body(r), "type") = Str(<<ty>>)

CommonFieldsValid(r) ==
  \A k \in {"userId", "sessionId", "timestamp"} :
    /\ k \in DOMAIN Body(r).v
    /\ Body(r).v[k].t = "string"
    /\ Body(r).v[k].v # <<>>

\* an answers request that carries an array of answers
IsAnswersReq(r) == HasType(r, "answers") /\ Get(Body(r), "answers").t = "array"

Answers(r) == Get(Body(r), "answers").v

\* an element of an answers array that does not pass validation
ElementInvalid(e) ==
  \/ e.t # "object"
  \/ "question_number" \notin DOMAIN e.v
  \/ e.v["question_number"].t = "null"
  \/ "question_text" \notin DOMAIN e.v
  \/ e.v["question_text"] \in {Null, Str(<<>>), Int1000(0), Bool(FALSE)}
  \/ "answer_value" \notin DOMAIN e.v

\* the rows of a table that request r inserted, in table order
RowsOf(r, table) == SelectSeq(store[table], LAMBDA x : x.req = r)

Responded(r) == pc[r] = "done"

\* C1: the answers rows a request with N answers has added are none or N,
\* at every moment and whether the store commits or aborts
C1_AllOrNothing ==
  \A r \in Reqs :
    IsAnswersReq(r) =>
      Len(RowsOf(r, "test_answers")) \in {0, Len(Answers(r))}

\* a transaction of two or more answers aborted after one of its statements
\* had been executed, and answered
C1_Witness ==
  \E r \in Reqs :
    /\ IsAnswersReq(r) /\ Responded(r)
    /\ Len(Answers(r)) >= 2
    /\ Len(executed[r]) >= 1
    /\ outcome[r].settled /\ ~outcome[r].ok
    /\ RowsOf(r, "test_answers") = <<>>

\* C2: an answers request with an invalid element somewhere in its array
\* inserts no row and submits nothing to the store
C2_InvalidNeverSubmitted ==
  \A r \in Reqs :
    (IsAnswersReq(r) /\ \E i \in 1..Len(Answers(r)) : ElementInvalid(Answers(r)[i]))
      => /\ calls[r] = 0
         /\ pending[r].op = NoOp
         /\ RowsOf(r, "test_answers") = <<>>

\* an answered request of the refactored handler whose first answer is valid
\* and whose second one is not
C2_Witness ==
  \E r \in Reqs :
    /\ IsAnswersReq(r) /\ Responded(r) /\ CommonFieldsValid(r)
    /\ req[r].endpoint = "log"
    /\ Len(Answers(r)) = 2
    /\ ~ElementInvalid(Answers(r)[1]) /\ ElementInvalid(Answers(r)[2])

\* C3: an answers request with valid common fields and an invalid element
\* (a null included) is answered 400 with the offending answer in the error
C3_InvalidAnswerIs400 ==
  \A r \in Reqs :
    ( /\ IsAnswersReq(r) /\ Responded(r) /\ CommonFieldsValid(r)
      /\ \E i \in 1..Len(Answers(r)) : ElementInvalid(Answers(r)[i]) )
      => /\ Len(responses[r]) = 1
         /\ responses[r][1].status = 400
         /\ responses[r][1].body.error.text # <<>>
         /\ \E i \in 1..Len(Answers(r)) :
              /\ ElementInvalid(Answers(r)[i])
              /\ responses[r][1].body.error.arg = Answers(r)[i]

\* the row of test_answers that answer a of request r is to become
RowMatches(row, r, a) ==
  /\ row.user_id = Body(r).v["userId"]
  /\ row.session_id = Body(r).v["sessionId"]
  /\ row.event_timestamp = Body(r).v["timestamp"]
  /\ row.question_number = a.v["question_number"]
  /\ row.question_text = a.v["question_text"]
  /\ row.answer_value = a.v["answer_value"]

ValidAnswersReq(r) ==
  /\ IsAnswersReq(r) /\ CommonFieldsValid(r)
  /\ Len(Answers(r)) >= 1
  /\ \A i \in 1..Len(Answers(r)) : ~ElementInvalid(Answers(r)[i])

\* C4: a valid answers request of N answers that the store commits has
\* exactly N rows, one per answer, all with the request's userId, sessionId
\* and timestamp, and is answered 201
C4_CommitYieldsNRows ==
  \A r \in Reqs :
    (ValidAnswersReq(r) /\ Responded(r) /\ outcome[r].ok)
      => LET rows == RowsOf(r, "test_answers")
             n == Len(Answers(r))
         IN /\ Len(rows) = n
            /\ \E f \in [1..n -> 1..n] :
                 /\ \A i, j \in 1..n : f[i] = f[j] => i = j
                 /\ \A j \in 1..n : RowMatches(rows[j].row, r, Answers(r)[f[j]])
            /\ Len(responses[r]) = 1
            /\ responses[r][1].status = 201

\* a committed and answered request of the refactored handler with two
\* different answers
C4_Witness ==
  \E r \in Reqs :
    /\ ValidAnswersReq(r) /\ Responded(r) /\ outcome[r].ok
    /\ req[r].endpoint = "log"
    /\ Len(Answers(r)) = 2
    /\ Answers(r)[1] # Answers(r)[2]
    /\ Len(RowsOf(r, "test_answers")) = 2

\* C5: a failed answers transaction is answered 500 with the text of the
\* store's error, whatever that text is, and leaves no row
C5_TxFailureIs500 ==
  \A r \in Reqs :
    ( /\ IsAnswersReq(r) /\ Responded(r)
      /\ pending[r].op.atomic
      /\ outcome[r].settled /\ ~outcome[r].ok )
      => /\ Len(responses[r]) = 1
         /\ responses[r][1].status = 500
         /\ responses[r][1].body.error = outcome[r].error.message
         /\ RowsOf(r, "test_answers") = <<>>

IsEventInsert(r) == IsLogPost(r) /\ pending[r].op.table = "test_events"

\* C6: a failed event insert is answered 500 with the text of the store's
\* error, after one attempt; no success status is sent for it
C6_EventFailureIs500 ==
  \A r \in Reqs :
    (IsEventInsert(r) /\ Responded(r) /\ outcome[r].settled /\ ~outcome[r].ok)
      => /\ calls[r] = 1
         /\ Len(responses[r]) = 1
         /\ responses[r][1].status = 500
         /\ responses[r][1].body.error = outcome[r].error.message

\* C7: an OPTIONS request to any endpoint gets one response, 200 without a
\* body, and the handler stops there: no method gate, no validation, no
\* persistence
C7_PreflightShortCircuit ==
  \A r \in Reqs :
    (req[r].method = "OPTIONS" /\ pc[r] \notin {"idle", "received"})
      => /\ pc[r] = "done"
         /\ responses[r] = <<End(200)>>
         /\ \A i \in 1..Len(trace[r]) :
              trace[r][i] \notin {"methodGate", "shapeGate", "dispatch",
                                  "validate", "persist"}
         /\ calls[r] = 0
         /\ pending[r].op = NoOp

\* an OPTIONS request that the refactored log handler has answered
C7_Witness ==
  \E r \in Reqs :
    /\ req[r].method = "OPTIONS" /\ req[r].endpoint = "log"
    /\ Responded(r)
    /\ Len(responses[r]) = 1

\* what the claim requires of one entry of a traits object
EntryConforms(e) ==
  /\ e.t = "object"
  /\ "percent" \in DOMAIN e.v
  /\ e.v["percent"].t = "number"
  /\ 0 <= e.v["percent"].v /\ e.v["percent"].v <= 100 * 1000
  /\ "type" \in DOMAIN e.v
  /\ e.v["type"].t = "string"
  /\ \E i \in 1..Len(e.v["type"].v) : e.v["type"].v[i] # " "

TraitsConform(t) ==
  /\ t.t = "object"
  /\ \A k \in {"mind", "energy", "nature", "tactics", "identity"} :
       k \in DOMAIN t.v /\ EntryConforms(t.v[k])

\* C8: isValidTraitObject is true exactly for the objects that have the five
\* keys, each with a numeric percent in [0, 100] and a type that is a string
\* with something other than white space in it
C8_TraitsIff ==
  (probe.fn = "isValidTraitObject" /\ probe.applied)
    => (probe.result <=> TraitsConform(probe.arg))

\* an accepted traits object with a percent of 0 and a percent of 100
C8_Witness ==
  /\ probe.fn = "isValidTraitObject" /\ probe.applied /\ probe.result
  /\ \E k \in TraitKeys : probe.arg.v[k].v["percent"].v = 0
  /\ \E k \in TraitKeys : probe.arg.v[k].v["percent"].v = 100 * 1000

IsResultReq(r) == HasType(r, "result") /\ req[r].endpoint # "logAnswers"

\* C9: a result request is answered 400 and inserts nothing when profileUrl
\* does not start with the profile prefix, or mbtiResult is missing or not a
\* string, or mbtiCode is present and not a string, or the traits fail
C9_ResultRejected ==
  \A r \in Reqs :
    ( /\ IsResultReq(r) /\ Responded(r)
      /\ \/ Get(Body(r), "profileUrl").t # "string"
         \/ ~StartsWith(Get(Body(r), "profileUrl").v, ProfilePrefix)
         \/ Get(Body(r), "mbtiResult").t # "string"
         \/ Get(Body(r), "mbtiCode").t \notin {"undefined", "null", "string"}
         \/ ~TraitsConform(Get(Body(r), "traits")) )
      => /\ Len(responses[r]) = 1
         /\ responses[r][1].status = 400
         /\ calls[r] = 0
         /\ RowsOf(r, "test_results") = <<>>

\* C10: a valid result request whose insert succeeds is answered 201 and has
\* one row, with the percent and type of the five traits, the profile URL,
\* the user and session, and the code, which is null when mbtiCode is absent
C10_ResultRow ==
  \A r \in Reqs :
    ( /\ IsResultReq(r) /\ Responded(r)
      /\ pending[r].op.table = "test_results" /\ outcome[r].ok )
      => LET rows == RowsOf(r, "test_results")
             b == Body(r)
         IN /\ Len(responses[r]) = 1
            /\ responses[r][1].status = 201
            /\ Len(rows) = 1
            /\ \A k \in {"mind", "energy", "nature", "tactics", "identity"} :
                 /\ rows[1].row.traits[k].percent = b.v["traits"].v[k].v["percent"]
                 /\ rows[1].row.traits[k].type = b.v["traits"].v[k].v["type"]
            /\ rows[1].row.profile_url = b.v["profileUrl"]
            /\ rows[1].row.user_id = b.v["userId"]
            /\ rows[1].row.session_id = b.v["sessionId"]
            /\ rows[1].row.result_timestamp = b.v["timestamp"]
            /\ ("mbtiCode" \notin DOMAIN b.v => rows[1].row.code = Null)
            /\ (Get(b, "mbtiCode").t = "string" /\ Get(b, "mbtiCode").v # <<>>
                  => rows[1].row.code = Get(b, "mbtiCode"))

\* an answered result request of the refactored handler without mbtiCode
\* whose row has been inserted
C10_Witness ==
  \E r \in Reqs :
    /\ IsResultReq(r) /\ Responded(r) /\ req[r].endpoint = "log"
    /\ "mbtiCode" \notin DOMAIN Body(r).v
    /\ outcome[r].ok
    /\ Len(RowsOf(r, "test_results")) = 1

IsValidEventReq(r) ==
  /\ HasType(r, "event") /\ CommonFieldsValid(r)
  /\ Get(Body(r), "eventName") \in {Str(<<"test_started">>), Str(<<"test_finished">>)}

\* C11: a valid test_started or test_finished event whose insert succeeds
\* is answered 200 and has exactly one row in test_events, with the
\* payload's userId, sessionId, eventName and timestamp
C11_EventRow ==
  \A r \in Reqs :
    (IsValidEventReq(r) /\ Responded(r) /\ outcome[r].ok)
      => /\ Len(responses[r]) = 1
         /\ responses[r][1].status = 200
         /\ RowsOf(r, "test_events") =
              <<[req |-> r,
                 row |-> [user_id |-> Body(r).v["userId"],
                          session_id |-> Body(r).v["sessionId"],
                          event_name |-> Body(r).v["eventName"],
                          event_timestamp |-> Body(r).v["timestamp"]]]>>
         /\ RowsOf(r, "test_answers") = <<>>
         /\ RowsOf(r, "test_results") = <<>>

\* a test_finished event of the refactored handler, inserted and answered
C11_Witness ==
  \E r \in Reqs :
    /\ IsValidEventReq(r) /\ Responded(r) /\ outcome[r].ok
    /\ req[r].endpoint = "log"
    /\ Get(Body(r), "eventName") = Str(<<"test_finished">>)
    /\ Len(RowsOf(r, "test_events")) = 1

\* a POST whose type and eventName select no type handler of the
\* refactored handler
IsUnroutedReq(r) ==
  /\ IsLogPost(r)
  /\ \/ /\ Get(Body(r), "type") = Str(<<"event">>)
        /\ Get(Body(r), "eventName") \notin
             {Str(<<"test_started">>), Str(<<"test_finished">>)}
     \/ Get(Body(r), "type") \notin
          {Str(<<"event">>), Str(<<"answers">>), Str(<<"result">>)}

IsInvalidTypeResponse(rsp) ==
  /\ rsp.status = 400
  /\ rsp.body.kind = "json"
  /\ StartsWith(rsp.body.message.text, <<"Invalid payload type specified: ">>)
       \/ rsp.body.message.text = <<"Invalid payload type specified.">>

NoRowsOf(r) ==
  /\ RowsOf(r, "test_events") = <<>>
  /\ RowsOf(r, "test_answers") = <<>>
  /\ RowsOf(r, "test_results") = <<>>

\* C12: an event whose eventName is not test_started or test_finished
\* (absent included), and any type other than event, answers and result, is
\* answered 400 and nothing is submitted or inserted; the 400 is the
\* "invalid payload type" response in the refactored handler, which routes
\* before it validates, and in the inline handlers when the common fields
\* pass their earlier test
C12_UnroutedIs400 ==
  \A r \in Reqs :
    (IsUnroutedReq(r) /\ pc[r] \notin {"idle", "received"})
      => /\ pc[r] = "done"
         /\ Len(responses[r]) = 1
         /\ responses[r][1].status = 400
         /\ (req[r].endpoint = "log" \/ CommonFieldsValid(r))
              => IsInvalidTypeResponse(responses[r][1])
         /\ calls[r] = 0
         /\ NoRowsOf(r)

\* an event named test_paused that the refactored handler has answered
C12_Witness ==
  \E r \in Reqs :
    /\ IsUnroutedReq(r) /\ Responded(r) /\ req[r].endpoint = "log"
    /\ Get(Body(r), "type") = Str(<<"event">>)
    /\ Get(Body(r), "eventName") = Str(<<"test_paused">>)
    /\ CommonFieldsValid(r)

(* ------------------------------------------------------------------ *)
(* validateCommonFields applied on its own, and the handlers run on    *)
(* the same payload                                                    *)
(* ------------------------------------------------------------------ *)
CommonKeys == {"userId", "sessionId", "timestamp"}

\* the values a common field is given: absent, its valid string, the empty
\* string, a number, null
CommonFieldValues(k) == {Undef, ValidCommon[k], Str(<<>>), Int1000(7), Null}

ProbeTypeParts ==
  {EventPart(Str(<<"test_started">>)), AnswersPart(Arr(<<A1>>)),
   ResultPart(Str(ProfilePrefix \o <<"abcd">>), Str(<<"INTJ Architect">>),
              Str(<<"INTJ">>), T1)}

CommonProbeBodies ==
  {Obj(Fld("userId", u) @@ Fld("sessionId", s) @@ Fld("timestamp", t) @@ p) :
     u \in CommonFieldValues("userId"), s \in CommonFieldValues("sessionId"),
     t \in CommonFieldValues("timestamp"), p \in ProbeTypeParts}

InitCommon ==
  /\ InitRequests
  /\ probe \in {[fn |-> "validateCommonFields", arg |-> b, applied |-> FALSE,
                 result |-> Return(Undef)] : b \in CommonProbeBodies}

ApplyCommon ==
  /\ probe.fn = "validateCommonFields"
  /\ ~probe.applied
  /\ probe' = [probe EXCEPT !.applied = TRUE,
                            !.result = validateCommonFields(probe.arg)]
  /\ UNCHANGED <<req, pc, headers, responses, trace, pending, executed,
                 outcome, calls, store>>

\* A POST with the probed payload arrives at one of the log handlers.
ReceiveProbe(r) ==
  /\ probe.fn = "validateCommonFields"
  /\ pc[r] = "idle"
  /\ \A q \in Reqs : (q < r => pc[q] = "done") /\ (q > r => pc[q] = "idle")
  /\ \E e \in LogEndpoints :
       req' = [req EXCEPT ![r] = [endpoint |-> e, method |-> "POST",
                                  body |-> probe.arg]]
  /\ pc' = [pc EXCEPT ![r] = "received"]
  /\ UNCHANGED <<headers, responses, trace, pending, executed, outcome, calls,
                 store, probe>>

NextCommon ==
  \/ ApplyCommon
  \/ \E r \in Reqs :
       \/ ReceiveProbe(r)
       \/ Run(r)
       \/ ExecStatement(r)
       \/ Commit(r)
       \/ Fail(r)
       \/ Resume(r)

SpecCommon == InitCommon /\ [][NextCommon]_vars

AllStrings(b) == \A k \in CommonKeys : k \in DOMAIN b.v /\ b.v[k].t = "string"

AllNonEmptyStrings(b) ==
  \A k \in CommonKeys :
    k \in DOMAIN b.v /\ b.v[k].t = "string" /\ b.v[k].v # <<>>

TheThreeFields(b) ==
  [userId |-> b.v["userId"], sessionId |-> b.v["sessionId"],
   timestamp |-> b.v["timestamp"]]

\* the handlers answer 400 without a store call
RejectedUnpersisted(r) ==
  /\ pc[r] = "done"
  /\ Len(responses[r]) = 1
  /\ responses[r][1].status = 400
  /\ calls[r] = 0
  /\ NoRowsOf(r)

\* C13 as stated: a mutating request with a common field missing or not a
\* string fails with a ValidationError, is answered 400 and persists
\* nothing, and when the three are strings the validator returns them
C13_Original ==
  /\ (probe.fn = "validateCommonFields" /\ probe.applied)
       => IF AllStrings(probe.arg)
          THEN ~probe.result.thrown
                 /\ probe.result.value = TheThreeFields(probe.arg)
          ELSE probe.result.thrown
                 /\ probe.result.error.name = "ValidationError"
  /\ \A r \in Reqs :
       (IsLogPost(r) /\ ~AllStrings(Body(r)) /\ pc[r] \notin {"idle", "received"})
         => RejectedUnpersisted(r)

\* C13 amended: the same with "missing, not a string or empty" for the
\* failure and "non-empty strings" for the return of the three fields
C13_CommonFields ==
  /\ (probe.fn = "validateCommonFields" /\ probe.applied)
       => IF AllNonEmptyStrings(probe.arg)
          THEN ~probe.result.thrown
                 /\ probe.result.value = TheThreeFields(probe.arg)
          ELSE probe.result.thrown
                 /\ probe.result.error.name = "ValidationError"
  /\ \A r \in Reqs :
       ( /\ IsLogPost(r) /\ ~AllNonEmptyStrings(Body(r))
         /\ pc[r] \notin {"idle", "received"} )
         => RejectedUnpersisted(r)

\* a payload whose timestamp is the empty string, refused by the validator
\* and answered 400 by the refactored handler
C13_Witness ==
  /\ probe.fn = "validateCommonFields" /\ probe.applied /\ probe.result.thrown
  /\ Get(probe.arg, "timestamp") = Str(<<>>)
  /\ Get(probe.arg, "userId") = ValidCommon["userId"]
  /\ Get(probe.arg, "sessionId") = ValidCommon["sessionId"]
  /\ \E r \in Reqs :
       /\ Responded(r) /\ req[r].endpoint = "log"
       /\ responses[r][1].status = 400

(* ------------------------------------------------------------------ *)
(* validateAnswers applied on its own                                  *)
(* ------------------------------------------------------------------ *)
B5 ==
  Obj([question_number |-> Int1000(1), question_text |-> Null,
       answer_value |-> Int1000(3)])
B6 ==
  Obj([question_number |-> Undef, question_text |-> Str(<<"Q1">>),
       answer_value |-> Int1000(3)])
B7 ==
  Obj([question_number |-> Int1000(1), question_text |-> Str(<<"Q1">>),
       answer_value |-> Undef])
A4 ==
  Obj([question_number |-> Str(<<"7">>), question_text |-> Int1000(7),
       answer_value |-> Null])

AnswerProbeElements ==
  {A1, A2, A3, A4, B1, B2, B3, B4, B5, B6, B7, Null, Int1000(5)}

AnswerProbeInputs ==
  {Arr(a) : a \in UNION {[1..n -> AnswerProbeElements] : n \in 0..MaxAnswers}}
    \cup {Undef, Null, Str(<<"Q1">>), A1}

InitAnswers ==
  /\ InitRequests
  /\ probe \in {[fn |-> "validateAnswers", arg |-> a, applied |-> FALSE,
                 result |-> Return(Undef)] : a \in AnswerProbeInputs}

ApplyAnswers ==
  /\ probe.fn = "validateAnswers"
  /\ ~probe.applied
  /\ probe' = [probe EXCEPT !.applied = TRUE,
                            !.result = validateAnswers(probe.arg)]
  /\ UNCHANGED <<req, pc, headers, responses, trace, pending, executed,
                 outcome, calls, store>>

NextAnswers == ApplyAnswers

SpecAnswers == InitAnswers /\ [][NextAnswers]_vars

\* the value read for field k of element e: undefined when e has no such
\* field (a null element has none)
FieldRead(e, k) == IF e.t = "object" /\ k \in DOMAIN e.v THEN e.v[k] ELSE Undef

Falsy == {Undef, Null, Str(<<>>), Int1000(0), Bool(FALSE)}

ElementRejected(e) ==
  \/ FieldRead(e, "question_number") \in {Undef, Null}
  \/ FieldRead(e, "question_text") \in Falsy
  \/ FieldRead(e, "answer_value") = Undef

\* C14: validateAnswers fails on a non-empty array exactly when some element
\* has question_number undefined or null, question_text falsy or answer_value
\* undefined (so question_number 0, answer_value 0 and answer_value "" pass),
\* and when it does not fail it returns its input, same elements, same order
C14_AnswersIff ==
  (probe.fn = "validateAnswers" /\ probe.applied)
    => LET a == probe.arg
       IN /\ (a.t # "array" \/ Len(a.v) = 0) => probe.result.thrown
          /\ (a.t = "array" /\ Len(a.v) > 0)
               => (probe.result.thrown
                     <=> \E i \in 1..Len(a.v) : ElementRejected(a.v[i]))
          /\ ~probe.result.thrown
               => /\ probe.result.value.t = "array"
                  /\ Len(probe.result.value.v) = Len(a.v)
                  /\ \A i \in 1..Len(a.v) : probe.result.value.v[i] = a.v[i]

\* question_number 0 with answer_value 0, followed by answer_value "", accepted
C14_Witness ==
  /\ probe.fn = "validateAnswers" /\ probe.applied
  /\ probe.arg = Arr(<<A2, A3>>)
  /\ ~probe.result.thrown

\* an element refused on answer_value alone
C14_WitnessReject ==
  /\ probe.fn = "validateAnswers" /\ probe.applied
  /\ probe.arg = Arr(<<A1, B4>>)
  /\ probe.result.thrown

\* the verb an endpoint serves
PermittedVerb(e) == IF e \in LogEndpoints THEN "POST" ELSE "GET"

IsWrongVerb(r) ==
  /\ pc[r] \notin {"idle", "received"}
  /\ req[r].method \notin {"OPTIONS", PermittedVerb(req[r].endpoint)}

InTrace(r, stage) == \E i \in 1..Len(trace[r]) : trace[r][i] = stage

\* C15: a request whose method is neither OPTIONS nor the endpoint's verb is
\* answered 405 with an Allow header naming that verb and OPTIONS; its body
\* is not validated and nothing is submitted to the store
C15_WrongVerbIs405 ==
  \A r \in Reqs :
    IsWrongVerb(r)
      => /\ pc[r] = "done"
         /\ Len(responses[r]) = 1
         /\ responses[r][1].status = 405
         /\ "Allow" \in DOMAIN headers[r]
         /\ headers[r]["Allow"]
              = IF req[r].endpoint \in LogEndpoints THEN "POST, OPTIONS"
                ELSE "GET, OPTIONS"
         /\ ~InTrace(r, "shapeGate") /\ ~InTrace(r, "validate")
         /\ ~InTrace(r, "persist")
         /\ calls[r] = 0
         /\ NoRowsOf(r)

\* a GET carrying a valid answers payload, refused by the refactored handler
C15_Witness ==
  \E r \in Reqs :
    /\ req[r].endpoint = "log" /\ req[r].method = "GET"
    /\ pc[r] = "done"
    /\ Body(r).t = "object" /\ Get(Body(r), "type") = Str(<<"answers">>)
    /\ CommonFieldsValid(r)
    /\ responses[r][1].status = 405

StatusCodes == {200, 201, 400, 405, 500}

\* C16: a log handler sends nothing until it finishes and, when it has
\* finished, has sent exactly one response, with status 200, 201, 400, 405
\* or 500, whatever the method, the body and the outcome of the store
C16_OneResponse ==
  \A r \in Reqs :
    (pc[r] # "idle" /\ req[r].endpoint \in LogEndpoints)
      => /\ Len(responses[r]) <= 1
         /\ pc[r] = "done"
              => /\ Len(responses[r]) = 1
                 /\ responses[r][1].status \in StatusCodes
         /\ pc[r] \in {"awaiting", "settled"} => Len(responses[r]) = 0

\* a validation failure answered by the catch block of the refactored handler
C16_Witness ==
  \E r \in Reqs :
    /\ req[r].endpoint = "log" /\ pc[r] = "done"
    /\ IsAnswersReq(r) /\ CommonFieldsValid(r)
    /\ \E i \in 1..Len(Answers(r)) : Answers(r)[i] = B1
    /\ Len(responses[r]) = 1 /\ responses[r][1].status = 400

\* a rejected transaction answered by the first inline handler
C16_WitnessStore ==
  \E r \in Reqs :
    /\ req[r].endpoint = "logAnswers" /\ pc[r] = "done"
    /\ outcome[r].settled /\ ~outcome[r].ok
    /\ Len(responses[r]) = 1 /\ responses[r][1].status = 500

(* ------------------------------------------------------------------ *)
(* Concurrent invocations of the refactored handler: each invocation   *)
(* is its own function instance, all share the store                   *)
(* ------------------------------------------------------------------ *)
MaxConc == 2

ConcReqs == 1..MaxConc

ConcBodies ==
  {Obj(ValidCommon @@ AnswersPart(Arr(<<A1, A2>>))),
   Obj(ValidCommon @@ AnswersPart(Arr(<<A3>>))),
   Obj(ValidCommon @@ EventPart(Str(<<"test_started">>)))}

InitConc ==
  /\ req = [r \in ConcReqs |-> NoRequest]
  /\ pc = [r \in ConcReqs |-> "idle"]
  /\ headers = [r \in ConcReqs |-> <<>>]
  /\ responses = [r \in ConcReqs |-> <<>>]
  /\ trace = [r \in ConcReqs |-> <<>>]
  /\ pending = [r \in ConcReqs |-> [op |-> NoOp, cont |-> "none"]]
  /\ executed = [r \in ConcReqs |-> <<>>]
  /\ outcome = [r \in ConcReqs |-> NotSettled]
  /\ calls = [r \in ConcReqs |-> 0]
  /\ store = [test_events |-> <<>>, test_answers |-> <<>>, test_results |-> <<>>]
  /\ probe = NoProbe

\* A POST arrives at the refactored handler while others may be in flight.
ReceiveConc(r) ==
  /\ pc[r] = "idle"
  /\ \E b \in ConcBodies :
       req' = [req EXCEPT ![r] = [endpoint |-> "log", method |-> "POST",
                                  body |-> b]]
  /\ pc' = [pc EXCEPT ![r] = "received"]
  /\ UNCHANGED <<headers, responses, trace, pending, executed, outcome, calls,
                 store, probe>>

NextConc ==
  \E r \in ConcReqs :
    \/ ReceiveConc(r)
    \/ Run(r)
    \/ ExecStatement(r)
    \/ Commit(r)
    \/ Fail(r)
    \/ Resume(r)

SpecConc == InitConc /\ [][NextConc]_vars

\* C17: with answers requests in flight together, the answers table shows of
\* each request either no row or one row for every one of its answers, and
\* rows only of requests whose transaction has committed; the statements of
\* a transaction may have run in any order
C17_InterleavedAllOrNone ==
  \A r \in ConcReqs :
    IsAnswersReq(r) =>
      LET seen == RowsOf(r, "test_answers")
          n == Len(Answers(r))
      IN /\ \/ seen = <<>>
            \/ /\ Len(seen) = n
               /\ \A i \in 1..n :
                    \E j \in 1..n : RowMatches(seen[j].row, r, Answers(r)[i])
         /\ seen # <<>> => outcome[r].settled /\ outcome[r].ok
         /\ pc[r] = "awaiting" => seen = <<>>

\* one request committed with its statements run in reverse order while
\* another has run one statement of its transaction and shows no row
C17_Witness ==
  \E r1, r2 \in ConcReqs :
    /\ r1 # r2
    /\ IsAnswersReq(r1) /\ IsAnswersReq(r2)
    /\ pc[r1] = "awaiting" /\ executed[r1] = <<2>>
    /\ RowsOf(r1, "test_answers") = <<>>
    /\ executed[r2] = <<2, 1>> /\ Len(RowsOf(r2, "test_answers")) = 2

TableOf(r) == IF IsAnswersReq(r) THEN "test_answers" ELSE "test_events"

RowCountOf(r) == IF IsAnswersReq(r) THEN Len(Answers(r)) ELSE 1

Fulfilled2(r1, r2) ==
  /\ r1 # r2
  /\ req[r1] = req[r2]
  /\ pc[r1] = "done" /\ pc[r2] = "done"
  /\ outcome[r1].settled /\ outcome[r1].ok
  /\ outcome[r2].settled /\ outcome[r2].ok

\* C18: of two identical valid submissions that the store accepts, whether
\* one ran after the other or both together, each is answered with success
\* and each has its own full set of rows, so the table holds twice the rows
\* of one submission; requests with the same payload and the same store
\* outcome get the same response
C18_DuplicatesDoubleRows ==
  \A r1, r2 \in ConcReqs :
    /\ Fulfilled2(r1, r2)
         => LET t == TableOf(r1)
                n == RowCountOf(r1)
            IN /\ responses[r1][1].status \in {200, 201}
               /\ responses[r2][1].status \in {200, 201}
               /\ Len(RowsOf(r1, t)) = n
               /\ Len(RowsOf(r2, t)) = n
               /\ Len(SelectSeq(store[t], LAMBDA x : x.req \in {r1, r2})) = 2 * n
               /\ \A i \in 1..n :
                    \E j \in 1..n : RowsOf(r2, t)[j].row = RowsOf(r1, t)[i].row
    /\ ( /\ r1 # r2 /\ req[r1] = req[r2] /\ outcome[r1] = outcome[r2]
         /\ pc[r1] = "done" /\ pc[r2] = "done" )
         => responses[r1] = responses[r2] /\ headers[r1] = headers[r2]

\* two identical answers submissions, their statements run in different
\* orders, both committed and answered
C18_Witness ==
  \E r1, r2 \in ConcReqs :
    /\ Fulfilled2(r1, r2)
    /\ IsAnswersReq(r1) /\ Len(Answers(r1)) = 2
    /\ executed[r1] = <<1, 2>> /\ executed[r2] = <<2, 1>>
    /\ Len(store["test_answers"]) = 4

\* the stages without the type dispatch, which the handlers place on either
\* side of the common-field validation
Stages(r) == SelectSeq(trace[r], LAMBDA s : s # "dispatch")

\* the order of the stages as the claim lists them
ListedRank(s) ==
  CASE s = "cors" -> 1
    [] s = "methodGate" -> 2
    [] s = "preflight" -> 3
    [] s = "shapeGate" -> 4
    [] s = "validate" -> 5
    [] s = "persist" -> 6
    [] s = "returned" -> 7
    [] OTHER -> 8

\* the order with the preflight test ahead of the method gate
CodeRank(s) ==
  CASE s = "cors" -> 1
    [] s = "preflight" -> 2
    [] s = "methodGate" -> 3
    [] s = "shapeGate" -> 4
    [] s = "validate" -> 5
    [] s = "persist" -> 6
    [] s = "returned" -> 7
    [] OTHER -> 8

CorsHeaderNames ==
  {"Access-Control-Allow-Origin", "Access-Control-Allow-Methods",
   "Access-Control-Allow-Headers"}

\* what holds of a run besides the order of the first stages: CORS headers
\* before any response, validation complete before the store is called,
\* response after the store call has returned
StageFacts(r) ==
  /\ Len(trace[r]) > 0 => trace[r][1] = "cors"
  /\ Len(responses[r]) > 0
       => /\ CorsHeaderNames \subseteq DOMAIN headers[r]
          /\ trace[r][Len(trace[r])] = "respond"
  /\ calls[r] > 0
       => /\ CommonFieldsValid(r)
          /\ IsAnswersReq(r)
               => \A i \in 1..Len(Answers(r)) : ~ElementInvalid(Answers(r)[i])
          /\ (req[r].endpoint = "log" /\ HasType(r, "result"))
               => ~validateTestResult(Body(r)).thrown
          /\ \A i, j \in 1..Len(trace[r]) :
               (trace[r][i] = "validate" /\ trace[r][j] = "persist") => i < j
  /\ (calls[r] > 0 /\ Len(responses[r]) > 0)
       => /\ outcome[r].settled
          /\ \E i, j, k \in 1..Len(trace[r]) :
               /\ i < j /\ j < k
               /\ trace[r][i] = "persist" /\ trace[r][j] = "returned"
               /\ trace[r][k] = "respond"

\* C19 as stated: the stages of every run follow the order CORS, method
\* gate, preflight, payload-shape gate, validation, persistence, response
C19_ListedOrder ==
  \A r \in Reqs :
    /\ \A i, j \in 1..Len(Stages(r)) :
         i < j => ListedRank(Stages(r)[i]) <= ListedRank(Stages(r)[j])
    /\ StageFacts(r)

\* C19 amended: the stages of every run follow the order CORS, preflight,
\* method gate, payload-shape gate, validation, persistence, response; CORS
\* headers are set before any response, all validation of a request is
\* done before its store call, and the response follows the return of
\* that call
C19_StageOrder ==
  \A r \in Reqs :
    /\ \A i, j \in 1..Len(Stages(r)) :
         i < j => CodeRank(Stages(r)[i]) <= CodeRank(Stages(r)[j])
    /\ StageFacts(r)

\* a result request that went through every stage of the refactored handler
C19_Witness ==
  \E r \in Reqs :
    /\ req[r].endpoint = "log" /\ HasType(r, "result") /\ pc[r] = "done"
    /\ Stages(r) = <<"cors", "preflight", "methodGate", "shapeGate",
                     "validate", "persist", "returned", "respond">>

\* the j-th row a request has in test_answers and the answer it was built
\* from: a transaction commits its rows in the order its statements ran
RowLabelOk(r, j) ==
  LET a == Answers(r)[executed[r][j]]
      row == RowsOf(r, "test_answers")[j].row
  IN /\ "answer_label" \notin DOMAIN a.v => row.answer_label = Str(<<"N/A">>)
     /\ ( /\ "answer_label" \in DOMAIN a.v
          /\ a.v["answer_label"].t = "string"
          /\ a.v["answer_label"].v # <<>> )
          => row.answer_label = a.v["answer_label"]

\* C20: a row inserted for an answer without answer_label has the label
\* "N/A", and a row inserted for an answer with a non-empty label has that
\* label
C20_LabelDefault ==
  \A r \in Reqs :
    IsAnswersReq(r)
      => \A j \in 1..Len(RowsOf(r, "test_answers")) : RowLabelOk(r, j)

\* the same for the handlers other than the first inline one
C20_LabelDefaultElsewhere ==
  \A r \in Reqs :
    (IsAnswersReq(r) /\ req[r].endpoint # "logAnswers")
      => \A j \in 1..Len(RowsOf(r, "test_answers")) : RowLabelOk(r, j)

\* rows of the refactored handler for a labelled and an unlabelled answer
C20_WitnessElsewhere ==
  \E r \in Reqs :
    /\ IsAnswersReq(r) /\ req[r].endpoint = "log"
    /\ Len(RowsOf(r, "test_answers")) = 2
    /\ \E j \in 1..2 : Answers(r)[j] = A1
    /\ \E j \in 1..2 : Answers(r)[j] = A2

(* ------------------------------------------------------------------ *)
(* The refactored handler and the staged inline handler given the same *)
(* request, each in its own invocation                                 *)
(* ------------------------------------------------------------------ *)
PairReqs == {1, 2}

PairEndpoint(r) == IF r = 1 THEN "log" ELSE "staged"

InitPair ==
  /\ req = [r \in PairReqs |-> NoRequest]
  /\ pc = [r \in PairReqs |-> "idle"]
  /\ headers = [r \in PairReqs |-> <<>>]
  /\ responses = [r \in PairReqs |-> <<>>]
  /\ trace = [r \in PairReqs |-> <<>>]
  /\ pending = [r \in PairReqs |-> [op |-> NoOp, cont |-> "none"]]
  /\ executed = [r \in PairReqs |-> <<>>]
  /\ outcome = [r \in PairReqs |-> NotSettled]
  /\ calls = [r \in PairReqs |-> 0]
  /\ store = [test_events |-> <<>>, test_answers |-> <<>>, test_results |-> <<>>]
  /\ probe = NoProbe

\* The same request arrives at both handlers.
ReceivePair ==
  /\ \A r \in PairReqs : pc[r] = "idle"
  /\ \E m \in Methods :
       \E b \in (IF m = "POST" THEN Bodies ELSE FewBodies) :
         req' = [r \in PairReqs |->
                   [endpoint |-> PairEndpoint(r), method |-> m, body |-> b]]
  /\ pc' = [r \in PairReqs |-> "received"]
  /\ UNCHANGED <<headers, responses, trace, pending, executed, outcome, calls,
                 store, probe>>

NextPair ==
  \/ ReceivePair
  \/ \E r \in PairReqs :
       \/ Run(r)
       \/ ExecStatement(r)
       \/ Commit(r)
       \/ Fail(r)
       \/ Resume(r)

SpecPair == InitPair /\ [][NextPair]_vars

\* the rows a request has inserted into a table, without their order
RowSet(r, table) ==
  {RowsOf(r, table)[i].row : i \in 1..Len(RowsOf(r, table))}

Tables == {"test_events", "test_answers", "test_results"}

\* C21: given the same method and payload, the refactored handler and the
\* staged inline handler submit the same store operation or none, and when
\* the store gives both the same outcome they answer with the same status
\* and have inserted the same rows
C21_Equivalent ==
  /\ (\A r \in PairReqs : pc[r] \notin {"idle", "received"})
       => pending[1].op = pending[2].op
  /\ ((\A r \in PairReqs : pc[r] = "done") /\ outcome[1] = outcome[2])
       => /\ Len(responses[1]) = 1 /\ Len(responses[2]) = 1
          /\ responses[1][1].status = responses[2][1].status
          /\ \A t \in Tables : RowSet(1, t) = RowSet(2, t)

\* a payload of unknown type with invalid common fields: the refactored
\* handler refuses the type, the inline one the common fields
C21_Witness ==
  /\ \A r \in PairReqs : pc[r] = "done"
  /\ req[1].method = "POST" /\ Body(1).t = "object"
  /\ Get(Body(1), "type") = Str(<<"ping">>)
  /\ ~CommonFieldsValid(1)
  /\ responses[1][1].body.message # responses[2][1].body.message
  /\ responses[1][1].status = 400

\* two answers committed by both handlers
C21_WitnessRows ==
  /\ \A r \in PairReqs : pc[r] = "done" /\ outcome[r].settled /\ outcome[r].ok
  /\ IsAnswersReq(1)
  /\ Len(RowsOf(1, "test_answers")) = 2 /\ Len(RowsOf(2, "test_answers")) = 2

====
